---- MODULE Spec2Model ----
(***************************************************************************)
(* Model of src/app.py, the customer-service timeliness report:            *)
(* file ingest, field normalisation, channel / business-line filters,     *)
(* the rn == 1 subset, the four axis tables (overall, business line,      *)
(* site, channel) with median / P90 statistics, the outer merges, and     *)
(* add_mom (month-over-month change).                                      *)
(*                                                                         *)
(* Encodings.                                                              *)
(*  - A text is a sequence of one-character tokens. TLA+ strings are      *)
(*    ASCII, so the non-ASCII dash characters of the regex at line 70     *)
(*    are named tokens: "HYPHEN" U+2010, "NBHYPHEN" U+2011, "FIGDASH"     *)
(*    U+2012, "ENDASH" U+2013, "EMDASH" U+2014, "HBAR" U+2015, "MINUS"    *)
(*    U+2212.                                                              *)
(*  - A float is NA (NaN) or <<n>>. Statistics are held in tenths         *)
(*    (<<91>> is 9.1): medians and 0.9-quantiles of integers are exact    *)
(*    in tenths.                                                           *)
(*  - The Chinese column names are written in ASCII:                      *)
(*      "first_response" = 首次响应时长, "handle" = 处理时长,                *)
(*      "reply_median"  = 回复次数-中位数,  "reply_p90"  = 回复次数-P90,      *)
(*      "resp_median"   = 首次响应时长h-中位数, "resp_p90" = 首次响应时长h-P90, *)
(*      "handle_median" = 处理时长d-中位数, "handle_p90" = 处理时长d-P90,     *)
(*      "month_col" = 月份, "line_col" = 品牌线, "site_col" = 国家,          *)
(*      "channel_col" = 渠道.                                               *)
(***************************************************************************)
EXTENDS Integers, Sequences, FiniteSets, TLC

VARIABLES
  uploaded_files,     \* the uploaded tables, in upload order
  columns,            \* the header the uploaded tables share (raw names)
  pc,                 \* position of the script
  i,                  \* number of files the ingest loop has handled
  all_dfs,            \* tables read so far (line 35)
  warnings,           \* indexes of the files whose read raised (line 47)
  df,                 \* the record set (lines 50, 64-78, 89, 103)
  df_norm,            \* the record set as normalised, before the filters
  cols,               \* df.columns after the strip of line 57
  selected_channels,  \* the channel multiselect (line 83)
  selected_lines,     \* the business-line multiselect (line 97)
  df_reply,           \* df.query("rn == 1") (lines 110-111, df_close is the same)
  pandas,             \* the major version of the installed pandas
  fam,                \* per axis: reply_* / resp_* / handle_* tables
  tables,             \* per axis: the assembled table after add_mom
  shown,              \* axes whose table has been displayed
  message,            \* the st.error / st.warning that stopped the run
  cell,               \* clean_numeric_column alone: the input cell
  cleaned             \* clean_numeric_column alone: its result

vars == <<uploaded_files, columns, pc, i, all_dfs, warnings, df, df_norm, cols,
          selected_channels, selected_lines, df_reply, pandas, fam,
          tables, shown, message, cell, cleaned>>

-----------------------------------------------------------------------------
(* Bounds *)

MaxRows == 2
MaxFiles == 2
MaxCellLen == 4

SeqUpTo(S, n) == UNION {[1..k -> S] : k \in 0..n}

-----------------------------------------------------------------------------
(* Values *)

NaN == "<NaN>"
NA == <<>>
Num(n) == <<n>>
IsNA(v) == v = NA

StrCell(s) == [kind |-> "str", n |-> 0, s |-> s]
NumCell(n) == [kind |-> "num", n |-> n, s |-> <<>>]
NanCell == [kind |-> "nan", n |-> 0, s |-> <<>>]

-----------------------------------------------------------------------------
(* clean_numeric_column, lines 67-74 *)

Whitespace == {" "}

DigitChars == <<"0", "1", "2", "3", "4", "5", "6", "7", "8", "9">>
IsDigit(c) == \E k \in 1..10 : DigitChars[k] = c
DigitVal(c) == (CHOOSE k \in 1..10 : DigitChars[k] = c) - 1

RECURSIVE ToDigits(_)
ToDigits(n) == IF n < 10 THEN <<DigitChars[n + 1]>>
               ELSE Append(ToDigits(n \div 10), DigitChars[(n % 10) + 1])

\* s.astype(str), line 68 (a NaN cell reads "nan" and is made missing again
\* by the regex; where astype keeps it missing the result is the same)
AsStr(c) ==
  CASE c.kind = "str" -> c.s
    [] c.kind = "nan" -> <<"n", "a", "n">>
    [] c.kind = "num" -> IF c.n < 0 THEN <<"-">> \o ToDigits(0 - c.n) ELSE ToDigits(c.n)

RECURSIVE LStrip(_)
LStrip(s) == IF s # <<>> /\ Head(s) \in Whitespace THEN LStrip(Tail(s)) ELSE s

RECURSIVE RStrip(_)
RStrip(s) == IF s # <<>> /\ s[Len(s)] \in Whitespace
             THEN RStrip(SubSeq(s, 1, Len(s) - 1)) ELSE s

\* .str.strip(), line 68
Strip(s) == RStrip(LStrip(s))

\* the character class of the first pattern of line 70
DashChars == {"-", "HYPHEN", "NBHYPHEN", "FIGDASH", "ENDASH", "EMDASH", "HBAR", "MINUS"}

\* the alternatives of the second pattern of line 70 (case-sensitive)
NullWords == {<<"n", "u", "l", "l">>, <<"N", "o", "n", "e">>,
              <<"n", "a", "n">>, <<"N", "a", "N">>}

MatchesDash(s) == s # <<>> /\ \A k \in 1..Len(s) : s[k] \in DashChars
MatchesNull(s) == s \in NullWords
MatchesBlank(s) == \A k \in 1..Len(s) : s[k] \in Whitespace

\* s.replace({...: None}, regex=True), lines 69-72: <<>> is None, <<t>> a text
RegexReplace(s) ==
  IF MatchesDash(s) \/ MatchesNull(s) \/ MatchesBlank(s) THEN <<>> ELSE <<s>>

\* s.str.replace(",", "", regex=False), line 73 (None stays missing)
RemoveCommas(o) ==
  IF o = <<>> THEN <<>> ELSE <<SelectSeq(o[1], LAMBDA c : c # ",")>>

RECURSIVE DecimalValue(_)
DecimalValue(s) == IF s = <<>> THEN 0
                   ELSE 10 * DecimalValue(SubSeq(s, 1, Len(s) - 1)) + DigitVal(s[Len(s)])

AllDigits(s) == s # <<>> /\ \A k \in 1..Len(s) : IsDigit(s[k])

\* variant of ToNumeric: what does not parse becomes 0 (a trailing fillna(0))
ToNumericFillZero(o) == IF o = <<>> THEN Num(0) ELSE
  LET t == Strip(o[1]) IN
    IF AllDigits(t) THEN Num(DecimalValue(t))
    ELSE IF Len(t) > 1 /\ t[1] \in {"-", "+"} /\ AllDigits(Tail(t))
         THEN Num((IF t[1] = "-" THEN 0 - 1 ELSE 1) * DecimalValue(Tail(t)))
    ELSE Num(0)

\* pd.to_numeric(s, errors="coerce"), line 74, on one cell: the parser skips
\* surrounding whitespace and reads an optional sign and decimal digits;
\* anything else (the nan words included) is NaN.
ToNumeric(o) == IF o = <<>> THEN NA ELSE
  LET t == Strip(o[1]) IN
    IF AllDigits(t) THEN Num(DecimalValue(t))
    ELSE IF Len(t) > 1 /\ t[1] \in {"-", "+"} /\ AllDigits(Tail(t))
         THEN Num((IF t[1] = "-" THEN 0 - 1 ELSE 1) * DecimalValue(Tail(t)))
    ELSE NA

clean_numeric_column(c) == ToNumeric(RemoveCommas(RegexReplace(Strip(AsStr(c)))))

-----------------------------------------------------------------------------
(* The uploaded tables *)

\* the header of an export, and the headers the model draws from
ColsAll == {"ticket_id", "ticket_created_datetime", "status", "ticket_channel",
            "business_line", "site_code", "rn", "message_count",
            "first_response", "handle"}

ColSets == {ColsAll,
            ColsAll \ {"ticket_channel"},
            ColsAll \ {"business_line"},
            ColsAll \ {"site_code"},
            ColsAll \ {"ticket_channel", "business_line"},
            ColsAll \ {"ticket_created_datetime"},
            ColsAll \ {"rn"},
            (ColsAll \ {"ticket_channel"}) \cup {" ticket_channel "},
            (ColsAll \ {"ticket_created_datetime"}) \cup {"Ticket_Created_At"}}

\* df.columns.astype(str).str.strip(), line 57
StripName(c) == IF c = " ticket_channel " THEN "ticket_channel" ELSE c

\* "ticket_created" in c.lower(), line 59
IsCreatedCol(c) == c \in {"ticket_created_datetime", "Ticket_Created_At"}

Base == [ticket_id |-> "T1", created |-> "2024-01-15", status |-> "closed",
         ticket_channel |-> "email", business_line |-> "A", site_code |-> "DE",
         rn |-> Num(1), message_count |-> StrCell(<<"5">>),
         first_response |-> StrCell(<<"2">>), handle |-> StrCell(<<"3">>)]

EmptyRow == [ticket_id |-> NaN, created |-> NaN, status |-> NaN,
             ticket_channel |-> NaN, business_line |-> NaN, site_code |-> NaN,
             rn |-> NA, message_count |-> NanCell,
             first_response |-> NanCell, handle |-> NanCell]

\* the non-data row an export appends
Footer == [EmptyRow EXCEPT !.ticket_id = "TOTAL"]

\* records that differ from Base in one field
Pool ==
  {Base}
  \cup {[Base EXCEPT !.ticket_id = "T2"]}
  \cup {[Base EXCEPT !.created = v] : v \in {"2024-02-03", "not a date"}}
  \cup {[Base EXCEPT !.status = "open"]}
  \cup {[Base EXCEPT !.ticket_channel = v] : v \in {"chat", NaN}}
  \cup {[Base EXCEPT !.business_line = v] : v \in {"B", NaN}}
  \cup {[Base EXCEPT !.site_code = NaN]}
  \cup {[Base EXCEPT !.rn = Num(2)]}
  \cup {[Base EXCEPT !.message_count = v] :
          v \in {StrCell(<<"0">>), StrCell(<<"1", ",", "0">>)}}
  \cup {[Base EXCEPT !.first_response = NanCell]}
  \cup {[Base EXCEPT !.handle = v] : v \in {StrCell(<<"EMDASH">>), NumCell(7)}}

DimPool == {Base,
            [Base EXCEPT !.ticket_channel = "chat"],
            [Base EXCEPT !.ticket_channel = NaN],
            [Base EXCEPT !.business_line = "B"]}

\* the data rows of an uploaded table, before its last row
FileBodies == {<<>>, <<Base>>, <<EmptyRow>>,
               <<[Base EXCEPT !.ticket_id = "T2"], EmptyRow>>,
               <<EmptyRow, Base>>}

\* a table whose column c is absent has no value in it
Project(r, cs) ==
  [ticket_id |-> IF "ticket_id" \in cs THEN r.ticket_id ELSE NaN,
   created |-> IF \E c \in cs : IsCreatedCol(c) THEN r.created ELSE NaN,
   status |-> IF "status" \in cs THEN r.status ELSE NaN,
   ticket_channel |-> IF \E c \in cs : StripName(c) = "ticket_channel"
                      THEN r.ticket_channel ELSE NaN,
   business_line |-> IF "business_line" \in cs THEN r.business_line ELSE NaN,
   site_code |-> IF "site_code" \in cs THEN r.site_code ELSE NaN,
   rn |-> IF "rn" \in cs THEN r.rn ELSE NA,
   message_count |-> IF "message_count" \in cs THEN r.message_count ELSE NanCell,
   first_response |-> IF "first_response" \in cs THEN r.first_response ELSE NanCell,
   handle |-> IF "handle" \in cs THEN r.handle ELSE NanCell]

\* ok = FALSE: pd.read_excel / pd.read_csv raises on this file
GoodFile(rows) == [ok |-> TRUE, rows |-> rows]
BadFile == [ok |-> FALSE, rows |-> <<>>]

\* a readable table ends with the footer or, when the export has none, with a
\* record; a table may also hold no row at all
FileSet == {GoodFile(rows \o <<last>>) : rows \in FileBodies, last \in {Footer, Base}}
           \cup {GoodFile(<<>>), BadFile}

-----------------------------------------------------------------------------
(* Ingest, lines 34-57 *)

\* df.iloc[:-1, :], line 44
DropLast(rows) == IF rows = <<>> THEN <<>> ELSE SubSeq(rows, 1, Len(rows) - 1)

IsAllNaN(r) == r = EmptyRow

\* variant of DropNaAll: the all-empty rows stay
DropNaAllKeepEmpty(rows) == rows

\* .dropna(how="all"), line 44
DropNaAll(rows) == SelectSeq(rows, LAMBDA r : ~IsAllNaN(r))

\* pd.concat(all_dfs, ignore_index=True), line 50
RECURSIVE Concat(_)
Concat(dfs) == IF dfs = <<>> THEN <<>> ELSE Head(dfs) \o Concat(Tail(dfs))

Start ==
  /\ pc = "start"
  /\ pc' = IF uploaded_files # <<>> THEN "read" ELSE "idle"
  /\ UNCHANGED <<uploaded_files, columns, i, all_dfs, warnings, df, df_norm, cols,
                 selected_channels, selected_lines, df_reply, pandas, fam,
                 tables, shown, message, cell, cleaned>>

\* one iteration of the loop of lines 36-47
ReadFile ==
  /\ pc = "read"
  /\ i < Len(uploaded_files)
  /\ LET file == uploaded_files[i + 1] IN
       IF file.ok
       THEN /\ all_dfs' = Append(all_dfs, DropNaAll(DropLast(file.rows)))
            /\ UNCHANGED warnings
       ELSE /\ warnings' = Append(warnings, i + 1)
            /\ UNCHANGED all_dfs
  /\ i' = i + 1
  /\ UNCHANGED <<uploaded_files, columns, pc, df, df_norm, cols,
                 selected_channels, selected_lines, df_reply, pandas, fam,
                 tables, shown, message, cell, cleaned>>

\* ignore_index=True: the rows are labelled 0, 1, ... in the merged order
Indexed(rows) == [k \in 1..Len(rows) |->
  [idx |-> k - 1, ticket_id |-> rows[k].ticket_id, created |-> rows[k].created,
   status |-> rows[k].status, ticket_channel |-> rows[k].ticket_channel,
   business_line |-> rows[k].business_line, site_code |-> rows[k].site_code,
   rn |-> rows[k].rn, message_count |-> rows[k].message_count,
   first_response |-> rows[k].first_response, handle |-> rows[k].handle]]

\* lines 49-55
Merge ==
  /\ pc = "read"
  /\ i = Len(uploaded_files)
  /\ IF all_dfs # <<>>
     THEN /\ df' = Indexed(Concat(all_dfs))
          /\ pc' = "merged"
          /\ UNCHANGED message
     ELSE /\ message' = "no_file_read"
          /\ pc' = "stopped"
          /\ UNCHANGED df
  /\ UNCHANGED <<uploaded_files, columns, i, all_dfs, warnings, df_norm, cols,
                 selected_channels, selected_lines, df_reply, pandas, fam,
                 tables, shown, cell, cleaned>>

-----------------------------------------------------------------------------
(* Normalisation, lines 57-78 *)

\* The script pins no pandas version, and two calls it makes differ between
\* the major versions:
\*  - astype(str) of a missing value (line 65): pandas 2 writes the text
\*    ("NaT" for a period), pandas 3 with its str dtype keeps it missing;
\*  - pct_change() without fill_method (lines 120, 125): pandas 2 forward-fills
\*    NaN first ("pad"), pandas 3 does not.
PandasVersions == {"2", "3"}

\* the texts pd.to_datetime(..., errors="coerce") parses; anything else is NaT
IsParsable(c) == c \in {"2024-01-15", "2024-02-03", "2024-03-09"}

\* pd.to_datetime(..., errors="coerce").dt.to_period("M").astype(str),
\* lines 64-65: the month text of a timestamp
MonthOf(c, v) ==
  CASE c = "2024-01-15" -> "2024-01"
    [] c = "2024-02-03" -> "2024-02"
    [] c = "2024-03-09" -> "2024-03"
    [] OTHER -> IF v = "2" THEN "NaT" ELSE NaN

\* lines 76-78
CleanIfPresent(col, cs, c) == IF col \in cs THEN clean_numeric_column(c) ELSE NA

NormRow(r, cs, v) ==
  [idx |-> r.idx, ticket_id |-> r.ticket_id, created |-> r.created,
   status |-> r.status, ticket_channel |-> r.ticket_channel,
   business_line |-> r.business_line, site_code |-> r.site_code, rn |-> r.rn,
   month |-> MonthOf(r.created, v),
   message_count |-> CleanIfPresent("message_count", cs, r.message_count),
   first_response |-> CleanIfPresent("first_response", cs, r.first_response),
   handle |-> CleanIfPresent("handle", cs, r.handle)]

Normalize ==
  /\ pc = "merged"
  /\ LET cs == {StripName(c) : c \in columns} IN
       IF \E c \in cs : IsCreatedCol(c)
       THEN /\ cols' = cs \cup {"ticket_created_datetime", "month"}
            /\ \E v \in PandasVersions :
                 /\ pandas' = v
                 /\ df' = [k \in 1..Len(df) |-> NormRow(df[k], cs, v)]
            /\ df_norm' = df'
            /\ pc' = "filter_channel"
            /\ UNCHANGED message
       ELSE /\ cols' = cs
            /\ message' = "no_created_column"
            /\ pc' = "stopped"
            /\ UNCHANGED <<df, df_norm, pandas>>
  /\ UNCHANGED <<uploaded_files, columns, i, all_dfs, warnings,
                 selected_channels, selected_lines, df_reply, fam,
                 tables, shown, cell, cleaned>>

-----------------------------------------------------------------------------
(* Dimension filters, lines 80-107 *)

Range(s) == {s[k] : k \in 1..Len(s)}

\* sorted(df[col].dropna().unique().tolist()), lines 82 and 96
Options(rows, col) == {r[col] : r \in Range(rows)} \ {NaN}

\* variant of Isin: a missing value passes
IsinOrNaN(v, sel) == v \in sel \/ v = NaN

\* Series.isin, lines 89 and 103
Isin(v, sel) == v \in sel

\* variant of FilterBy: the selection is not applied
FilterKeepAll(rows, col, sel) == rows

\* df[df[col].isin(sel)], lines 89 and 103
FilterBy(rows, col, sel) == SelectSeq(rows, LAMBDA r : Isin(r[col], sel))

FilterChannel ==
  /\ pc = "filter_channel"
  /\ IF "ticket_channel" \in cols
     THEN \E sel \in SUBSET Options(df, "ticket_channel") :
            /\ selected_channels' = sel
            /\ IF sel # {}
               THEN /\ df' = FilterBy(df, "ticket_channel", sel)
                    /\ pc' = "filter_line"
                    /\ UNCHANGED message
               ELSE /\ message' = "no_channel_selected"
                    /\ pc' = "stopped"
                    /\ UNCHANGED df
     ELSE /\ pc' = "filter_line"
          /\ UNCHANGED <<df, selected_channels, message>>
  /\ UNCHANGED <<uploaded_files, columns, i, all_dfs, warnings, df_norm, cols,
                 selected_lines, df_reply, pandas, fam, tables, shown,
                 cell, cleaned>>

FilterLine ==
  /\ pc = "filter_line"
  /\ IF "business_line" \in cols
     THEN \E sel \in SUBSET Options(df, "business_line") :
            /\ selected_lines' = sel
            /\ IF sel # {}
               THEN /\ df' = FilterBy(df, "business_line", sel)
                    /\ pc' = "subset"
                    /\ UNCHANGED message
               ELSE /\ message' = "no_line_selected"
                    /\ pc' = "stopped"
                    /\ UNCHANGED df
     ELSE /\ pc' = "subset"
          /\ UNCHANGED <<df, selected_lines, message>>
  /\ UNCHANGED <<uploaded_files, columns, i, all_dfs, warnings, df_norm, cols,
                 selected_channels, df_reply, pandas, fam, tables, shown,
                 cell, cleaned>>

-----------------------------------------------------------------------------
(* The subset, lines 109-111 *)

\* df.query("rn == 1"); the query raises when there is no rn column
Subset ==
  /\ pc = "subset"
  /\ IF "rn" \in cols
     THEN /\ df_reply' = SelectSeq(df, LAMBDA r : r.rn = Num(1))
          /\ pc' = "overall"
     ELSE /\ pc' = "raised"
          /\ UNCHANGED df_reply
  /\ UNCHANGED <<uploaded_files, columns, i, all_dfs, warnings, df, df_norm, cols,
                 selected_channels, selected_lines, pandas, fam, tables,
                 shown, message, cell, cleaned>>

-----------------------------------------------------------------------------
(* Statistics, lines 132-143 (and 183-194, 233-244, 283-294) *)

Axes == {"overall", "line", "site", "channel"}

\* the grouping column an axis adds to "month"; "" for the overall axis
DimOf(r, axis) ==
  CASE axis = "overall" -> ""
    [] axis = "line" -> r.business_line
    [] axis = "site" -> r.site_code
    [] axis = "channel" -> r.ticket_channel

AxisCol(axis) ==
  CASE axis = "overall" -> "month"
    [] axis = "line" -> "business_line"
    [] axis = "site" -> "site_code"
    [] axis = "channel" -> "ticket_channel"

\* the texts that occur as keys, in the order Python compares str
StrOrder == <<"", "2024-01", "2024-02", "2024-03", "A", "B", "DE", "FR",
              "NaT", "chat", "email">>
StrRank(s) == CHOOSE k \in 1..Len(StrOrder) : StrOrder[k] = s
StrLT(a, b) == StrRank(a) < StrRank(b)

\* order of (month, dimension) keys
KeyLT(a, b) == StrLT(a[1], b[1]) \/ (a[1] = b[1] /\ StrLT(a[2], b[2]))

KeyGT(a, b) == KeyLT(b, a)

\* variant of SortKeys: descending
RECURSIVE SortKeysDesc(_)
SortKeysDesc(S) ==
  IF S = {} THEN <<>>
  ELSE LET m == CHOOSE x \in S : \A y \in S : y = x \/ KeyGT(x, y)
       IN <<m>> \o SortKeysDesc(S \ {m})

\* the keys in ascending order, as groupby, merge(how="outer") and
\* sort_values leave them
RECURSIVE SortKeys(_)
SortKeys(S) ==
  IF S = {} THEN <<>>
  ELSE LET m == CHOOSE x \in S : \A y \in S : y = x \/ KeyLT(x, y)
       IN <<m>> \o SortKeys(S \ {m})

RECURSIVE Insert(_, _)
Insert(x, s) == IF s = <<>> THEN <<x>>
                ELSE IF x <= Head(s) THEN <<x>> \o s
                ELSE <<Head(s)>> \o Insert(x, Tail(s))

RECURSIVE SortInts(_)
SortInts(s) == IF s = <<>> THEN <<>> ELSE Insert(Head(s), SortInts(Tail(s)))

\* the non-missing values of a column in a group, sorted
GroupValues(view, axis, key, field) ==
  LET g == SelectSeq(view, LAMBDA r : r.month = key[1] /\ DimOf(r, axis) = key[2]
                                      /\ ~IsNA(r[field]))
  IN SortInts([k \in 1..Len(g) |-> g[k][field][1]])

\* "median" of a group, in tenths; NaN for a group without values
Median(vs) ==
  LET n == Len(vs) IN
    IF n = 0 THEN NA
    ELSE IF n % 2 = 1 THEN Num(10 * vs[(n + 1) \div 2])
    ELSE Num(5 * (vs[n \div 2] + vs[(n \div 2) + 1]))

\* x.quantile(0.9), linear interpolation at rank 0.9 * (n - 1), in tenths
Quantile90(vs) ==
  LET n == Len(vs)
      lo == (9 * (n - 1)) \div 10
      fr == (9 * (n - 1)) % 10
  IN IF n = 0 THEN NA
     ELSE IF fr = 0 THEN Num(10 * vs[lo + 1])
     ELSE Num(10 * vs[lo + 1] + fr * (vs[lo + 2] - vs[lo + 1]))

\* the group keys of df.groupby(["month", dim]): rows with NaN in a key
\* column are left out (dropna=True)
GroupKeys(view, axis) ==
  {<<r.month, DimOf(r, axis)>> :
     r \in {x \in Range(view) : x.month # NaN /\ DimOf(x, axis) # NaN}}

\* df.groupby(keys, as_index=False).agg(median, p90): one row per key, in key order
GroupAgg(view, axis, field) ==
  LET ks == SortKeys(GroupKeys(view, axis)) IN
    [k \in 1..Len(ks) |->
       [month |-> ks[k][1], dim |-> ks[k][2],
        median |-> Median(GroupValues(view, axis, ks[k], field)),
        p90 |-> Quantile90(GroupValues(view, axis, ks[k], field))]]

-----------------------------------------------------------------------------
(* Assembly, lines 145-159 (and 196-209, 246-259, 296-309) *)

StatCols == {"reply_median", "reply_p90", "resp_median", "resp_p90",
             "handle_median", "handle_p90"}

TableKeys(tb) == {<<tb[k].month, tb[k].dim>> : k \in 1..Len(tb)}

\* the value of a family's column at a key; NaN when the family has no such row
Lookup(tb, key, colname) ==
  IF key \in TableKeys(tb)
  THEN (CHOOSE r \in Range(tb) : r.month = key[1] /\ r.dim = key[2])[colname]
  ELSE NA

MergedRow(reply, resp, handle, key) ==
  [month |-> key[1], dim |-> key[2],
   stat |-> [c \in StatCols |->
      CASE c = "reply_median" -> Lookup(reply, key, "median")
        [] c = "reply_p90" -> Lookup(reply, key, "p90")
        [] c = "resp_median" -> Lookup(resp, key, "median")
        [] c = "resp_p90" -> Lookup(resp, key, "p90")
        [] c = "handle_median" -> Lookup(handle, key, "median")
        [] c = "handle_p90" -> Lookup(handle, key, "p90")]]

\* a.merge(b, how="outer").merge(c, how="outer"): the union of the keys
OuterKeys(reply, resp, handle) ==
  TableKeys(reply) \cup TableKeys(resp) \cup TableKeys(handle)

\* .sort_values(["month", dim]) of the merged rows
SortValues(reply, resp, handle, keys) ==
  LET ks == SortKeys(keys) IN
    [k \in 1..Len(ks) |-> MergedRow(reply, resp, handle, ks[k])]

Assemble(reply, resp, handle) ==
  SortValues(reply, resp, handle, OuterKeys(reply, resp, handle))

-----------------------------------------------------------------------------
(* add_mom, lines 114-127 *)

\* the columns whose name contains one of the three keywords of line 116
IsMetric(c) == c \in {"reply_median", "reply_p90", "resp_median", "resp_p90",
                      "handle_median", "handle_p90"}

\* what Series.pct_change() and GroupBy.pct_change() do with NaN when called
\* without fill_method
FillMethod(v) == IF v = "2" THEN "pad" ELSE "none"

SameGroup(rows, j, k, grouped) == grouped => rows[j].dim = rows[k].dim

MaxOf(S) == CHOOSE x \in S : \A y \in S : y <= x

\* the row before row k in its group (0: none); the whole table is one group
\* when add_mom is called without group_cols
PrevRow(rows, k, grouped) ==
  LET J == {j \in 1..(k - 1) : SameGroup(rows, j, k, grouped)}
  IN IF J = {} THEN 0 ELSE MaxOf(J)

\* the value pct_change divides: the cell, or under "pad" the last value
\* before it in its group when the cell is NaN
Filled(rows, k, m, grouped, fm) ==
  IF fm = "pad" /\ IsNA(rows[k].stat[m])
  THEN LET J == {j \in 1..(k - 1) : SameGroup(rows, j, k, grouped)
                                    /\ ~IsNA(rows[j].stat[m])}
       IN IF J = {} THEN NA ELSE rows[MaxOf(J)].stat[m]
  ELSE rows[k].stat[m]

\* cur / prev - 1 in floating point: NaN, an infinity, or the ratio num / den
PctChange(cur, prev) ==
  IF IsNA(cur) \/ IsNA(prev) THEN [k |-> "nan", num |-> 0, den |-> 1]
  ELSE IF prev[1] = 0
       THEN IF cur[1] > 0 THEN [k |-> "inf", num |-> 0, den |-> 1]
            ELSE IF cur[1] < 0 THEN [k |-> "-inf", num |-> 0, den |-> 1]
            ELSE [k |-> "nan", num |-> 0, den |-> 1]
  ELSE [k |-> "num", num |-> cur[1] - prev[1], den |-> prev[1]]

\* n / d rounded to the nearest integer, ties to even
RoundDiv(n, d) ==
  LET nn == IF d < 0 THEN 0 - n ELSE n
      dd == IF d < 0 THEN 0 - d ELSE d
      q == nn \div dd
      r == nn - q * dd
  IN IF 2 * r < dd THEN q
     ELSE IF 2 * r > dd THEN q + 1
     ELSE IF q % 2 = 0 THEN q ELSE q + 1

\* f"{x*100:.1f}%" if pd.notnull(x) else "-": t is the percentage in tenths
\* ("50.0%" is [k |-> "pct", t |-> 500])
Render(x) ==
  CASE x.k = "nan" -> [k |-> "-", t |-> 0]
    [] x.k = "inf" -> [k |-> "inf%", t |-> 0]
    [] x.k = "-inf" -> [k |-> "-inf%", t |-> 0]
    [] x.k = "num" -> [k |-> "pct", t |-> RoundDiv(1000 * x.num, x.den)]

MomCell(rows, k, m, grouped, fm) ==
  LET j == PrevRow(rows, k, grouped) IN
    IF j = 0 THEN Render([k |-> "nan", num |-> 0, den |-> 1])
    ELSE Render(PctChange(Filled(rows, k, m, grouped, fm),
                          Filled(rows, j, m, grouped, fm)))

add_mom(rows, grouped, fm) ==
  [k \in 1..Len(rows) |->
     [month |-> rows[k].month, dim |-> rows[k].dim, stat |-> rows[k].stat,
      mom |-> [m \in {c \in DOMAIN rows[k].stat : IsMetric(c)} |->
                 MomCell(rows, k, m, grouped, fm)]]]

-----------------------------------------------------------------------------
(* The four analyses, lines 129-327, and the export, lines 329-349 *)

Families(view, axis) ==
  [reply |-> GroupAgg(view, axis, "message_count"),
   resp |-> GroupAgg(view, axis, "first_response"),
   handle |-> GroupAgg(view, axis, "handle")]

AxisTable(f, axis, fm) ==
  add_mom(Assemble(f.reply, f.resp, f.handle), axis # "overall", fm)

\* lines 132-161
Overall ==
  /\ pc = "overall"
  /\ fam' = [fam EXCEPT !["overall"] = Families(df_reply, "overall")]
  /\ tables' = [tables EXCEPT !["overall"] =
                  AxisTable(fam'["overall"], "overall", FillMethod(pandas))]
  /\ shown' = shown \cup {"overall"}
  /\ pc' = "line"
  /\ UNCHANGED <<uploaded_files, columns, i, all_dfs, warnings, df, df_norm, cols,
                 selected_channels, selected_lines, df_reply, pandas, message,
                 cell, cleaned>>

\* one of the sections at lines 180-211, 230-261, 280-311
Section(axis, here, next) ==
  /\ pc = here
  /\ IF AxisCol(axis) \in cols
     THEN /\ fam' = [fam EXCEPT ![axis] = Families(df_reply, axis)]
          /\ tables' = [tables EXCEPT ![axis] = AxisTable(fam'[axis], axis, FillMethod(pandas))]
          /\ shown' = shown \cup {axis}
     ELSE UNCHANGED <<fam, tables, shown>>
  /\ pc' = next
  /\ UNCHANGED <<uploaded_files, columns, i, all_dfs, warnings, df, df_norm, cols,
                 selected_channels, selected_lines, df_reply, pandas,
                 message, cell, cleaned>>

LineStats == Section("line", "line", "site")

SiteStats == Section("site", "site", "channel")

ChannelStats == Section("channel", "channel", "export")

\* the workbook holds the tables that were displayed
Export ==
  /\ pc = "export"
  /\ pc' = "done"
  /\ UNCHANGED <<uploaded_files, columns, i, all_dfs, warnings, df, df_norm, cols,
                 selected_channels, selected_lines, df_reply, pandas, fam,
                 tables, shown, message, cell, cleaned>>

-----------------------------------------------------------------------------
(* The script *)

NoTables == [a \in Axes |-> <<>>]
NoFamilies == [a \in Axes |-> [reply |-> <<>>, resp |-> <<>>, handle |-> <<>>]]

WithFooter(rows, cs) == [k \in 1..(Len(rows) + 1) |->
  IF k <= Len(rows) THEN Project(rows[k], cs) ELSE Project(Footer, cs)]

InitRest ==
  /\ pc = "start"
  /\ i = 0
  /\ all_dfs = <<>>
  /\ warnings = <<>>
  /\ df = <<>>
  /\ df_norm = <<>>
  /\ cols = {}
  /\ selected_channels = {}
  /\ selected_lines = {}
  /\ df_reply = <<>>
  /\ pandas = "unknown"
  /\ fam = NoFamilies
  /\ tables = NoTables
  /\ shown = {}
  /\ message = "none"
  /\ cell = NanCell
  /\ cleaned = NA

\* one export with the full header and up to MaxRows records of Pool
InitRecords ==
  /\ columns = ColsAll
  /\ uploaded_files \in {<<GoodFile(WithFooter(rows, ColsAll))>> :
                           rows \in SeqUpTo(Pool, MaxRows)}

\* one export under each header
InitColumns ==
  /\ columns \in ColSets
  /\ uploaded_files \in {<<GoodFile(WithFooter(rows, columns))>> :
                           rows \in SeqUpTo(DimPool, MaxRows)}

\* up to MaxFiles uploads, readable or not
InitFiles ==
  /\ columns = ColsAll
  /\ uploaded_files \in SeqUpTo(FileSet, MaxFiles)

Init == (InitRecords \/ InitColumns \/ InitFiles) /\ InitRest

Next ==
  \/ Start
  \/ ReadFile
  \/ Merge
  \/ Normalize
  \/ FilterChannel
  \/ FilterLine
  \/ Subset
  \/ Overall
  \/ LineStats
  \/ SiteStats
  \/ ChannelStats
  \/ Export

Spec == Init /\ [][Next]_vars

\* one export whose records give business line A three months and line B one,
\* each with one reply count or none
MomValues == {NanCell, NumCell(0), NumCell(100), NumCell(150)}

MomRow(created, line, v) ==
  [Base EXCEPT !.created = created, !.business_line = line, !.message_count = v]

MomSlot(created, line) == {<<>>} \cup {<<MomRow(created, line, v)>> : v \in MomValues}

MomFiles ==
  /\ columns = ColsAll
  /\ uploaded_files \in
       {<<GoodFile(WithFooter(a \o b \o c \o d, ColsAll))>> :
          a \in MomSlot("2024-01-15", "A"), b \in MomSlot("2024-02-03", "B"),
          c \in MomSlot("2024-02-03", "A"), d \in MomSlot("2024-03-09", "A")}

InitMom == MomFiles /\ InitRest

SpecMom == InitMom /\ [][Next]_vars

-----------------------------------------------------------------------------
(* clean_numeric_column on its own *)

CellChars == {"-", "EMDASH", "0", "1", ",", " ", "n", "u", "l", "a"}

ExampleTexts == {<<"1", ",", "2", "3", "4">>, <<"N", "U", "L", "L">>,
                 <<"N", "o", "n", "e">>, <<"n", "o", "n", "e">>,
                 <<"N", "a", "N">>, <<"N", "A", "N">>, <<" ", "1", "2", " ">>,
                 <<"MINUS", "ENDASH">>, <<"+", "7">>, <<"x", "y">>,
                 <<"1", ",", "2", "3", "4", ",", "5", "6", "7">>}

Cells == {StrCell(s) : s \in SeqUpTo(CellChars, MaxCellLen) \cup ExampleTexts}
         \cup {NanCell} \cup {NumCell(n) : n \in {0 - 3, 0, 7, 1234}}

InitClean ==
  /\ cell \in Cells
  /\ cleaned = NA
  /\ pc = "cell"
  /\ uploaded_files = <<>>
  /\ columns = {}
  /\ i = 0
  /\ all_dfs = <<>>
  /\ warnings = <<>>
  /\ df = <<>>
  /\ df_norm = <<>>
  /\ cols = {}
  /\ selected_channels = {}
  /\ selected_lines = {}
  /\ df_reply = <<>>
  /\ pandas = "unknown"
  /\ fam = NoFamilies
  /\ tables = NoTables
  /\ shown = {}
  /\ message = "none"

CleanCell ==
  /\ pc = "cell"
  /\ cleaned' = clean_numeric_column(cell)
  /\ pc' = "cleaned"
  /\ UNCHANGED <<uploaded_files, columns, i, all_dfs, warnings, df, df_norm, cols,
                 selected_channels, selected_lines, df_reply, pandas, fam,
                 tables, shown, message, cell>>

NextClean == CleanCell

SpecClean == InitClean /\ [][NextClean]_vars

-----------------------------------------------------------------------------
(* Claims *)

Occurrences(rows, axis, tid, d) ==
  Cardinality({k \in 1..Len(rows) : rows[k].ticket_id = tid /\ DimOf(rows[k], axis) = d})

AxisPresent(axis) == axis = "overall" \/ AxisCol(axis) \in cols

\* C1: for every axis, a (ticket_id, grouping key) combination that occurs
\* more than once in the filtered record set occurs exactly once, as its first
\* occurrence, in the view the statistics are computed from, whatever rn is.
C1_DedupPerAxis ==
  pc = "done" =>
    \A axis \in {a \in Axes : AxisPresent(a)} :
      \A r \in Range(df) :
        Occurrences(df, axis, r.ticket_id, DimOf(r, axis)) > 1 =>
          /\ Occurrences(df_reply, axis, r.ticket_id, DimOf(r, axis)) = 1
          /\ \A v \in Range(df_reply) :
               (v.ticket_id = r.ticket_id /\ DimOf(v, axis) = DimOf(r, axis))
                 => v.idx <= r.idx

ClosedOnly(rows) == SelectSeq(rows, LAMBDA r : r.status = "closed")

\* C2: with a status column, every axis table is what the closed records
\* alone give: non-closed records change no result table.
C2_ClosedOnly ==
  (pc = "done" /\ "status" \in cols) =>
    \A axis \in shown :
      tables[axis] = AxisTable(Families(ClosedOnly(df_reply), axis), axis, FillMethod(pandas))

Parsable(rows) == SelectSeq(rows, LAMBDA r : IsParsable(r.created))

\* C3: a record with an unparsable creation timestamp has a null bucket, stays
\* in the record set, and no table has a row built from such records: no
\* "NaT" row, and every table is what the parsable records alone give.
C3_NoNaTBucket ==
  /\ pc \in {"filter_channel"} =>
       /\ Len(df) = Len(Concat(all_dfs))
       /\ \A r \in Range(df) : ~IsParsable(r.created) => r.month = NaN
  /\ pc = "done" =>
       \A axis \in shown :
         /\ \A k \in 1..Len(tables[axis]) : tables[axis][k].month # "NaT"
         /\ tables[axis] = AxisTable(Families(Parsable(df_reply), axis), axis, FillMethod(pandas))

IsNumber(v) == ~IsNA(v)

\* C4: in every axis table and statistic column, the change on the first
\* bucket of a group is the placeholder, and on a later bucket it is
\* (current - previous) / previous of the immediately preceding bucket of the
\* same group (the placeholder where that is undefined); [100, 150] gives
\* the placeholder and 50.0%.
C4_ChangeOfPreceding ==
  pc = "done" =>
    \A axis \in shown :
      LET T == tables[axis] IN
        \A k \in 1..Len(T) : \A m \in DOMAIN T[k].mom :
          LET J == {j \in 1..(k - 1) : axis # "overall" => T[j].dim = T[k].dim}
              cur == T[k].stat[m]
          IN IF J = {} THEN T[k].mom[m].k = "-"
             ELSE LET prev == T[MaxOf(J)].stat[m] IN
               IF IsNumber(cur) /\ IsNumber(prev) /\ prev # Num(0)
               THEN /\ T[k].mom[m].k = "pct"
                    /\ 2 * (T[k].mom[m].t * prev[1] - 1000 * (cur[1] - prev[1])) <= prev[1]
                    /\ 2 * (1000 * (cur[1] - prev[1]) - T[k].mom[m].t * prev[1]) <= prev[1]
                    /\ (prev = Num(1000) /\ cur = Num(1500)) => T[k].mom[m].t = 500
               ELSE T[k].mom[m].k = "-"

\* C5: when the statistic of the preceding bucket of the same group is zero or
\* missing, the change of the current bucket is the placeholder: no number
\* and no infinity is reported.
C5_ZeroOrMissingPrevious ==
  pc = "done" =>
    \A axis \in shown :
      LET T == tables[axis] IN
        \A k \in 1..Len(T) : \A m \in DOMAIN T[k].mom :
          LET J == {j \in 1..(k - 1) : axis # "overall" => T[j].dim = T[k].dim}
          IN (J # {} /\ T[MaxOf(J)].stat[m] \in {NA, Num(0)}) => T[k].mom[m].k = "-"

Lower(c) ==
  CASE c = "N" -> "n" [] c = "U" -> "u" [] c = "L" -> "l" [] c = "O" -> "o"
    [] c = "E" -> "e" [] c = "A" -> "a" [] OTHER -> c

LowerText(s) == [k \in 1..Len(s) |-> Lower(s[k])]

\* the sentinels of the claim, on a trimmed text
IsSentinel(s) ==
  \/ s = <<>>
  \/ \A k \in 1..Len(s) : s[k] \in DashChars
  \/ LowerText(s) \in {<<"n", "u", "l", "l">>, <<"n", "o", "n", "e">>, <<"n", "a", "n">>}

RECURSIVE Pow10(_)
Pow10(n) == IF n = 0 THEN 1 ELSE 10 * Pow10(n - 1)

RECURSIVE PlaceValue(_)
PlaceValue(s) == IF s = <<>> THEN 0
                 ELSE DigitVal(Head(s)) * Pow10(Len(s) - 1) + PlaceValue(Tail(s))

Unsigned(s) == IF s # <<>> /\ Head(s) \in {"-", "+"} THEN Tail(s) ELSE s

\* C6: clean_numeric_column maps every cell to a number or to missing: a
\* trimmed cell that is empty, only dash variants, or null / none / nan in any
\* case becomes missing and never zero; a cell with thousands separators
\* parses to the number without them ("1,234" gives 1234); every other text
\* that is not a number becomes missing.
C6_CleanNumeric ==
  pc = "cleaned" =>
    LET s == Strip(AsStr(cell))
        body == Strip(SelectSeq(s, LAMBDA c : c # ","))
        digits == Unsigned(body)
        isNumber == ~IsSentinel(s) /\ digits # <<>>
                    /\ \A k \in 1..Len(digits) : IsDigit(digits[k])
    IN /\ cleaned = NA \/ (Len(cleaned) = 1 /\ cleaned[1] \in Int)
       /\ IsSentinel(s) => cleaned = NA
       /\ ~isNumber => cleaned = NA
       /\ isNumber => cleaned = Num((IF Head(body) = "-" THEN 0 - 1 ELSE 1) * PlaceValue(digits))
       /\ cell = StrCell(<<"1", ",", "2", "3", "4">>) => cleaned = Num(1234)

C6_Witness ==
  /\ pc = "cleaned"
  /\ cell = StrCell(<<"1", ",", "2", "3", "4">>)
  /\ cleaned = Num(1234)

RECURSIVE DataRows(_, _)
DataRows(rows, k) ==
  IF k = 0 THEN <<>>
  ELSE DataRows(rows, k - 1)
         \o (IF k < Len(rows) /\ rows[k] # EmptyRow THEN <<rows[k]>> ELSE <<>>)

RECURSIVE ExpectedUpTo(_)
ExpectedUpTo(k) ==
  IF k = 0 THEN <<>>
  ELSE ExpectedUpTo(k - 1)
         \o (IF uploaded_files[k].ok
             THEN DataRows(uploaded_files[k].rows, Len(uploaded_files[k].rows))
             ELSE <<>>)

RECURSIVE FailedUpTo(_)
FailedUpTo(k) ==
  IF k = 0 THEN <<>>
  ELSE FailedUpTo(k - 1) \o (IF uploaded_files[k].ok THEN <<>> ELSE <<k>>)

Unindexed(rows) == [k \in 1..Len(rows) |->
  [ticket_id |-> rows[k].ticket_id, created |-> rows[k].created,
   status |-> rows[k].status, ticket_channel |-> rows[k].ticket_channel,
   business_line |-> rows[k].business_line, site_code |-> rows[k].site_code,
   rn |-> rows[k].rn, message_count |-> rows[k].message_count,
   first_response |-> rows[k].first_response, handle |-> rows[k].handle]]

SomeFileRead == \E k \in 1..Len(uploaded_files) : uploaded_files[k].ok

\* C7: the merged record set is the concatenation, in upload order, of every
\* readable table without its last row and without its all-empty rows; an
\* unreadable table adds no rows, is warned about, and the loop goes on to
\* the remaining tables; the run stops at the ingest, before normalisation,
\* exactly when no table was read.
C7_Ingest ==
  /\ pc = "read" =>
       /\ Concat(all_dfs) = ExpectedUpTo(i)
       /\ warnings = FailedUpTo(i)
  /\ pc = "merged" =>
       /\ i = Len(uploaded_files)
       /\ Unindexed(df) = ExpectedUpTo(Len(uploaded_files))
       /\ \A k \in 1..Len(df) : df[k].idx = k - 1
       /\ warnings = FailedUpTo(Len(uploaded_files))
  /\ message = "no_file_read" =>
       /\ pc = "stopped"
       /\ i = Len(uploaded_files)
       /\ ~SomeFileRead
       /\ warnings = FailedUpTo(Len(uploaded_files))
       /\ df = <<>> /\ cols = {} /\ shown = {}
  /\ pc \notin {"start", "read", "idle"} => (SomeFileRead <=> message # "no_file_read")
  /\ pc = "idle" => uploaded_files = <<>>

C7_Witness ==
  /\ pc = "merged"
  /\ Len(uploaded_files) = 2
  /\ ~uploaded_files[1].ok
  /\ EmptyRow \in Range(DropLast(uploaded_files[2].rows))
  /\ df # <<>>
  /\ warnings = <<1>>

AfterChannel == {"filter_line", "subset", "overall", "line", "site", "channel",
                 "export", "done", "raised"}
AfterLine == AfterChannel \ {"filter_line"}

ChannelOk(r) == "ticket_channel" \in cols => r.ticket_channel \in selected_channels
LineOk(r) == "business_line" \in cols => r.business_line \in selected_lines

\* C8: an absent dimension column leaves the record set unchanged; a present
\* column with an empty selection stops the run with "no data selected" and
\* no result table; a non-empty selection keeps exactly the records whose
\* value is selected, so after both filters the record set is exactly the
\* records that satisfy both selections.
C8_Filters ==
  /\ pc = "filter_line" => df = SelectSeq(df_norm, ChannelOk)
  /\ pc \in AfterLine => df = SelectSeq(df_norm, LAMBDA r : ChannelOk(r) /\ LineOk(r))
  /\ (pc \in AfterChannel /\ "ticket_channel" \in cols) => selected_channels # {}
  /\ (pc \in AfterLine /\ "business_line" \in cols) => selected_lines # {}
  /\ message = "no_channel_selected" =>
       /\ pc = "stopped" /\ "ticket_channel" \in cols /\ selected_channels = {}
       /\ shown = {} /\ tables = NoTables
  /\ message = "no_line_selected" =>
       /\ pc = "stopped" /\ "business_line" \in cols /\ selected_lines = {}
       /\ shown = {} /\ tables = NoTables

C8_Witness ==
  /\ pc = "done"
  /\ {"ticket_channel", "business_line"} \subseteq cols
  /\ selected_channels # Options(df_norm, "ticket_channel")
  /\ selected_lines # Options(df_norm, "business_line")
  /\ df # <<>>
  /\ Len(df) < Len(df_norm)

FamilyCols(f) ==
  CASE f = "reply" -> <<"reply_median", "reply_p90">>
    [] f = "resp" -> <<"resp_median", "resp_p90">>
    [] f = "handle" -> <<"handle_median", "handle_p90">>

\* C9: an assembled axis table has exactly one row for each (month,
\* dimension) key of at least one of the three family tables, the columns of
\* a family without data for the key are missing rather than the row being
\* dropped, and the rows ascend by month and then by dimension value.
C9_Assembly ==
  \A axis \in shown :
    LET T == tables[axis]
        f == fam[axis]
    IN /\ TableKeys(T) = TableKeys(f.reply) \cup TableKeys(f.resp) \cup TableKeys(f.handle)
       /\ Cardinality(TableKeys(T)) = Len(T)
       /\ \A k \in 1..(Len(T) - 1) :
            \/ StrLT(T[k].month, T[k + 1].month)
            \/ (T[k].month = T[k + 1].month /\ StrLT(T[k].dim, T[k + 1].dim))
       /\ \A k \in 1..Len(T) : \A g \in {"reply", "resp", "handle"} :
            LET hit == {j \in 1..Len(f[g]) : f[g][j].month = T[k].month
                                             /\ f[g][j].dim = T[k].dim}
            IN IF hit = {}
               THEN T[k].stat[FamilyCols(g)[1]] = NA /\ T[k].stat[FamilyCols(g)[2]] = NA
               ELSE \A j \in hit : /\ T[k].stat[FamilyCols(g)[1]] = f[g][j].median
                                   /\ T[k].stat[FamilyCols(g)[2]] = f[g][j].p90
       /\ \A r \in Range(df_reply) :
            (r.month # NaN /\ DimOf(r, axis) # NaN)
              => <<r.month, DimOf(r, axis)>> \in TableKeys(T)

C9_Witness ==
  /\ pc = "done"
  /\ Len(tables["overall"]) = 2
  /\ tables["overall"][1].stat["reply_median"] # NA
  /\ tables["overall"][1].stat["resp_median"] = NA
  /\ tables["overall"][1].stat["resp_p90"] = NA

Contributors ==
  SelectSeq(df_norm, LAMBDA r :
    /\ r.rn = Num(1)
    /\ "ticket_channel" \in cols => (r.ticket_channel # NaN /\ r.ticket_channel \in selected_channels)
    /\ "business_line" \in cols => (r.business_line # NaN /\ r.business_line \in selected_lines))

\* C10: when the channel (or business line) column is present, a record whose
\* value for it is missing is removed by the filter under every non-empty
\* selection, the default of all listed values included, and so contributes
\* to no axis table, the overall table included; when the column is absent
\* the filter keeps every record.
C10_MissingDimension ==
  /\ (pc \in AfterChannel /\ "ticket_channel" \in cols) =>
       \A r \in Range(df) : r.ticket_channel # NaN
  /\ (pc \in AfterLine /\ "business_line" \in cols) =>
       \A r \in Range(df) : r.business_line # NaN
  /\ (pc = "filter_line" /\ "ticket_channel" \notin cols) => df = df_norm
  /\ (pc \in AfterLine /\ "ticket_channel" \notin cols /\ "business_line" \notin cols) =>
       df = df_norm
  /\ \A axis \in shown :
       /\ TableKeys(tables[axis]) = GroupKeys(Contributors, axis)
       /\ \A k \in 1..Len(tables[axis]) :
            LET row == tables[axis][k]
                key == <<row.month, row.dim>>
            IN /\ row.stat["reply_median"] = Median(GroupValues(Contributors, axis, key, "message_count"))
               /\ row.stat["resp_p90"] = Quantile90(GroupValues(Contributors, axis, key, "first_response"))
               /\ row.stat["handle_median"] = Median(GroupValues(Contributors, axis, key, "handle"))

C10_Witness ==
  /\ pc = "done"
  /\ "ticket_channel" \in cols
  /\ \E r \in Range(df_norm) : r.ticket_channel = NaN /\ r.rn = Num(1)
  /\ selected_channels = Options(df_norm, "ticket_channel")
  /\ tables["overall"] # <<>>
  /\ Len(df) < Len(df_norm)

====
